---------------------------- MODULE Spec2Model ----------------------------
(***************************************************************************)
(* Server side WebSocket framing of src/WebSocket.cpp: the handshake       *)
(* scanner, the resumable frame decoder, the masker, the output buffer and *)
(* the frame writer, driven by a client that sends header lines and frames *)
(* over a transport which delivers them in arbitrary chunks.               *)
(*                                                                         *)
(* Bytes and characters are integers 0..255 (ASCII for the header lines).  *)
(* A QByteArray is a sequence of bytes, the null QByteArray is << >>.      *)
(* The object is taken to be value-initialised (all fields zero), the      *)
(* only construction under which state() starts as None.                   *)
(***************************************************************************)
EXTENDS Integers, Sequences, FiniteSets, TLC

VARIABLES
  \* ---- fields of class WebSocket (WebSocket.h:24-33)
  wsState, webSocketAccept, mask, maskIndex, buffers, bytesInBuffers,
  nextAction, nextLength, buffersFirstConsumed, nextPayload,
  \* ---- the QSslSocket: bytes available to read, bytes written so far
  sockIn, sockOut,
  \* ---- the client and the network
  nFed,       \* number of the client's bytes the transport has delivered
  clLines,    \* header lines the client has sent (blank line included)
  clSent,     \* frames the client has sent, each by its place in AllFrames
  \* ---- the application's calls and what they returned
  readOut,    \* every byte read() has returned, in order
  nWrites,    \* number of frames the application has written
  \* ---- harness of the pure function writeLength
  wlLength, wlOut

objVars == <<wsState, webSocketAccept, mask, maskIndex, buffers, bytesInBuffers,
             nextAction, nextLength, buffersFirstConsumed, nextPayload,
             sockIn, sockOut>>
envVars == <<nFed, clLines, clSent, readOut, nWrites>>
wlVars  == <<wlLength, wlOut>>
vars    == <<objVars, envVars, wlVars>>

(***************************************************************************)
(* Bounds of the explored scenarios.                                       *)
(***************************************************************************)
MaxLines  == 1   \* header lines the client sends before the blank line
MaxFrames == 2   \* frames the client sends
MaxWrites == 1   \* frames the application writes
MaxReadLen == 2  \* largest maxLen passed to read()
MaxChunked == 48 \* undelivered bytes up to which any chunk size is tried
MaxKeyLines == 2 \* header lines of a request that repeats its key line

(***************************************************************************)
(* Byte helpers.                                                           *)
(***************************************************************************)
Min(a, b) == IF a < b THEN a ELSE b

Drop(s, n) == SubSeq(s, n + 1, Len(s))

Take(s, n) == SubSeq(s, 1, n)

IsPrefix(p, s) == Len(p) <= Len(s) /\ Take(s, Len(p)) = p

RECURSIVE Flatten(_)
Flatten(ss) == IF ss = << >> THEN << >> ELSE Head(ss) \o Flatten(Tail(ss))

\* a ^ b on n-bit operands (operator ^= of WebSocket.cpp:235)
RECURSIVE XorBits(_, _, _)
XorBits(a, b, n) ==
  IF n = 0 THEN 0
  ELSE ((a + b) % 2) + 2 * XorBits(a \div 2, b \div 2, n - 1)

Xor8(a, b) == XorBits(a, b, 8)

\* qFromBigEndian<quint16/quint64>: most significant byte first
RECURSIVE FromBigEndian(_, _)
FromBigEndian(bytes, acc) ==
  IF bytes = << >> THEN acc
  ELSE FromBigEndian(Tail(bytes), acc * 256 + Head(bytes))

\* qToBigEndian of an n-byte unsigned value
RECURSIVE ToBigEndian(_, _)
ToBigEndian(v, n) ==
  IF n = 0 THEN << >> ELSE ToBigEndian(v \div 256, n - 1) \o <<v % 256>>

(***************************************************************************)
(* Constants of WebSocket.cpp.                                             *)
(***************************************************************************)
CRLF == <<13, 10>>

\* "258EAFA5-E914-47DA-95CA-C5AB0DC85B11"
magicSequence ==
  <<50, 53, 56, 69, 65, 70, 65, 53, 45, 69, 57, 49, 52, 45, 52, 55, 68, 65,
    45, 57, 53, 67, 65, 45, 67, 53, 65, 66, 48, 68, 67, 56, 53, 66, 49, 49>>

\* "HTTP/1.1 101 Switching Protocols\r\nUpgrade: websocket\r\n
\*  Connection: Upgrade\r\nSec-WebSocket-Accept: "
serverHeader ==
  <<72, 84, 84, 80, 47, 49, 46, 49, 32, 49, 48, 49, 32, 83, 119, 105, 116,
    99, 104, 105, 110, 103, 32, 80, 114, 111, 116, 111, 99, 111, 108, 115,
    13, 10, 85, 112, 103, 114, 97, 100, 101, 58, 32, 119, 101, 98, 115, 111,
    99, 107, 101, 116, 13, 10, 67, 111, 110, 110, 101, 99, 116, 105, 111,
    110, 58, 32, 85, 112, 103, 114, 97, 100, 101, 13, 10, 83, 101, 99, 45,
    87, 101, 98, 83, 111, 99, 107, 101, 116, 45, 65, 99, 99, 101, 112, 116,
    58, 32>>

msgHeader == 130

pongHeader == 138

\* "sec-websocket-key:", the prefix of line 40 folded to lower case
keyPrefixLower ==
  <<115, 101, 99, 45, 119, 101, 98, 115, 111, 99, 107, 101, 116, 45, 107,
    101, 121, 58>>

KeyPrefixLen == 18

KeyLen == 24

(***************************************************************************)
(* The state of the object as one record, so that the methods are          *)
(* operators from object to object.                                        *)
(***************************************************************************)
Obj ==
  [wsState |-> wsState, webSocketAccept |-> webSocketAccept, mask |-> mask,
   maskIndex |-> maskIndex, buffers |-> buffers,
   bytesInBuffers |-> bytesInBuffers, nextAction |-> nextAction,
   nextLength |-> nextLength, buffersFirstConsumed |-> buffersFirstConsumed,
   nextPayload |-> nextPayload, sockIn |-> sockIn, sockOut |-> sockOut]

\* the value-initialised object on a transport that holds the bytes `input`
NewObj(input) ==
  [wsState |-> "None", webSocketAccept |-> << >>, mask |-> <<0, 0, 0, 0>>,
   maskIndex |-> 0, buffers |-> << >>, bytesInBuffers |-> 0,
   nextAction |-> "ReadOpcodeAnd1ByteLength", nextLength |-> 0,
   buffersFirstConsumed |-> 0, nextPayload |-> "Data",
   sockIn |-> input, sockOut |-> << >>]

Becomes(o) ==
  /\ wsState' = o.wsState
  /\ webSocketAccept' = o.webSocketAccept
  /\ mask' = o.mask
  /\ maskIndex' = o.maskIndex
  /\ buffers' = o.buffers
  /\ bytesInBuffers' = o.bytesInBuffers
  /\ nextAction' = o.nextAction
  /\ nextLength' = o.nextLength
  /\ buffersFirstConsumed' = o.buffersFirstConsumed
  /\ nextPayload' = o.nextPayload
  /\ sockIn' = o.sockIn
  /\ sockOut' = o.sockOut

(***************************************************************************)
(* The handshake: WebSocket::socketReadHandshake.                          *)
(***************************************************************************)
\* QIODevice::canReadLine: a '\n' is buffered
canReadLine(input) == \E i \in 1..Len(input) : input[i] = 10

\* QIODevice::readLine: up to and including the first '\n'
readLine(input) ==
  Take(input, CHOOSE i \in 1..Len(input) :
                 input[i] = 10 /\ \A j \in 1..(i - 1) : input[j] # 10)

toLower(c) == IF c >= 65 /\ c <= 90 THEN c + 32 ELSE c

\* QString::startsWith(prefix, Qt::CaseInsensitive), prefix given in lower case
startsWithCI(line, prefixLower) ==
  /\ Len(line) >= Len(prefixLower)
  /\ \A i \in 1..Len(prefixLower) : toLower(line[i]) = prefixLower[i]

isSpace(c) == c \in {9, 10, 11, 12, 13, 32}

\* QStringRef::trimmed: white space removed from both ends
RECURSIVE trimmed(_)
trimmed(s) ==
  IF s = << >> THEN s
  ELSE IF isSpace(Head(s)) THEN trimmed(Tail(s))
  ELSE IF isSpace(s[Len(s)]) THEN trimmed(Take(s, Len(s) - 1))
  ELSE s

\* QCryptographicHash::hash(..., Sha1).toBase64() of the Qt library, which
\* is not code of this repository: an opaque injective token over symbols
\* outside the byte range, never null.
sha1Base64(bytes) == [i \in 1..Len(bytes) |-> 256 + bytes[i]]

\* the key line handled with an answer written when the key is refused
handleKeyLineAnswering(o, line) ==
  LET restLength == Len(line) - KeyPrefixLen IN
  IF restLength < KeyLen + 2
  THEN [o |-> [o EXCEPT !.wsState = "Error", !.sockOut = @ \o CRLF],
        continue |-> FALSE]
  ELSE
    LET keyOnly == trimmed(SubSeq(line, KeyPrefixLen + 1,
                                  KeyPrefixLen + restLength))
    IN [o |-> [o EXCEPT !.webSocketAccept =
                          sha1Base64(keyOnly \o magicSequence)],
        continue |-> TRUE]

\* lines 40-56: a Sec-WebSocket-Key line; `continue` tells whether the scan
\* goes on with the next line
handleKeyLine(o, line) ==
  LET restLength == Len(line) - KeyPrefixLen IN
  IF restLength < KeyLen + 2
  THEN [o |-> [o EXCEPT !.wsState = "Error"], continue |-> FALSE]
  ELSE
    LET keyOnly == trimmed(SubSeq(line, KeyPrefixLen + 1,
                                  KeyPrefixLen + restLength))
    IN [o |-> [o EXCEPT !.webSocketAccept =
                          sha1Base64(keyOnly \o magicSequence)],
        continue |-> TRUE]

\* the blank line handled without the test of line 60
handleBlankLineUnchecked(o, lineAscii) ==
  [o EXCEPT !.sockOut = @ \o serverHeader \o o.webSocketAccept
                          \o lineAscii \o lineAscii,
            !.wsState = "Open"]

\* lines 58-72: the blank line that ends the header
handleBlankLine(o, lineAscii) ==
  IF o.webSocketAccept = << >> THEN [o EXCEPT !.wsState = "Error"]
  ELSE [o EXCEPT !.sockOut = @ \o serverHeader \o o.webSocketAccept
                                \o lineAscii \o lineAscii,
                 !.wsState = "Open"]

RECURSIVE socketReadHandshake(_)
socketReadHandshake(o) ==
  IF ~canReadLine(o.sockIn) THEN o
  ELSE
    LET lineAscii == readLine(o.sockIn)
        line == lineAscii
        o1 == [o EXCEPT !.sockIn = Drop(@, Len(lineAscii))]
    IN
    IF startsWithCI(line, keyPrefixLower) THEN
      LET r == handleKeyLine(o1, line) IN
      IF r.continue THEN socketReadHandshake(r.o) ELSE r.o
    ELSE IF lineAscii = CRLF THEN handleBlankLine(o1, lineAscii)
    ELSE socketReadHandshake(o1)

(***************************************************************************)
(* The masker: WebSocket::unmask.  The loop over i = lo .. hi-1 is run as  *)
(* its first half followed by its second half, the rolling index threaded  *)
(* through; one iteration is the body of the loop.                         *)
(***************************************************************************)
RECURSIVE unmaskLoop(_, _, _, _, _)
unmaskLoop(data, key, mi, lo, hi) ==
  IF hi <= lo THEN [data |-> << >>, maskIndex |-> mi]
  ELSE IF hi = lo + 1 THEN
    [data |-> <<Xor8(data[lo + 1], key[mi + 1])>>,
     maskIndex |-> IF mi + 1 = 4 THEN 0 ELSE mi + 1]
  ELSE
    LET mid == (lo + hi) \div 2
        left == unmaskLoop(data, key, mi, lo, mid)
        right == unmaskLoop(data, key, left.maskIndex, mid, hi)
    IN [data |-> left.data \o right.data, maskIndex |-> right.maskIndex]

\* unmask with an index that starts at 0 on every call
unmaskRestart(o, data, len) ==
  [data |-> unmaskLoop(data, o.mask, 0, 0, len).data, maskIndex |-> 0]

\* unmask(data, len) on object o: the unmasked bytes and the index it leaves
unmask(o, data, len) == unmaskLoop(data, o.mask, o.maskIndex, 0, len)

(***************************************************************************)
(* The frame writer: WebSocket::writeLength and WebSocket::write.          *)
(***************************************************************************)
\* the bytes writeLength writes for `length`
writeLength(length) ==
  IF length <= 125 THEN <<length>>
  ELSE IF length <= 65536 THEN <<126>> \o ToBigEndian(length % 65536, 2)
  ELSE <<127>> \o ToBigEndian(length, 8)

\* write without the test of the state
writeAlways(o, qbaMsg) ==
  [o EXCEPT !.sockOut = @ \o <<msgHeader>> \o writeLength(Len(qbaMsg))
                          \o qbaMsg]

write(o, qbaMsg) ==
  IF o.wsState = "Open"
  THEN [o EXCEPT !.sockOut = @ \o <<msgHeader>> \o writeLength(Len(qbaMsg))
                                \o qbaMsg]
  ELSE o

(***************************************************************************)
(* The frame decoder: WebSocket::socketReadOpen.  Each case of the switch  *)
(* is an operator that yields the object and whether the loop goes on      *)
(* (`break`/`continue`) or the method returns.                             *)
(***************************************************************************)
Return(o) == [o |-> o, loop |-> FALSE]

Loop(o) == [o |-> o, loop |-> TRUE]

\* the mask bit taken as set whatever byte 1 holds
maskBitIgnored(byte1) == TRUE

\* line 121: the mask bit of header byte 1
maskBitOf(byte1) == byte1 >= 128

\* lines 81-144
readOpcodeAnd1ByteLength(o) ==
  IF Len(o.sockIn) < 2 THEN Return(o)
  ELSE
    LET opcode == o.sockIn[1] % 16
        byte1 == o.sockIn[2]
        o1 == [o EXCEPT !.sockIn = Drop(@, 2)]
        maskBit == maskBitOf(byte1)
        len7 == byte1 % 128
        o2 == [o1 EXCEPT !.nextPayload = IF opcode <= 2 THEN "Data"
                                         ELSE IF opcode = 9 THEN "Ping"
                                         ELSE "Pong"]
    IN
    IF opcode = 8 THEN
      Return([o1 EXCEPT !.sockOut = @ \o <<opcode + 128, 0>>,
                        !.wsState = "Closed"])
    ELSE IF ~(opcode <= 2 \/ opcode = 9 \/ opcode = 10) THEN
      Return([o1 EXCEPT !.wsState = "Error"])
    ELSE IF ~maskBit THEN Return([o2 EXCEPT !.wsState = "Error"])
    ELSE IF len7 <= 125 THEN
      Loop([o2 EXCEPT !.nextLength = len7, !.nextAction = "ReadMask"])
    ELSE IF len7 = 126 THEN Loop([o2 EXCEPT !.nextAction = "Read2ByteLength"])
    ELSE IF len7 = 127 THEN Loop([o2 EXCEPT !.nextAction = "Read8ByteLength"])
    ELSE Return([o2 EXCEPT !.wsState = "Error"])

\* the extended length read from as many bytes as are there, up to nBytes
readExtendedLengthTorn(o, nBytes) ==
  IF Len(o.sockIn) < 1 THEN Return(o)
  ELSE
    LET n == Min(nBytes, Len(o.sockIn)) IN
    Loop([o EXCEPT !.sockIn = Drop(@, n),
                   !.nextLength = FromBigEndian(Take(o.sockIn, n), 0),
                   !.nextAction = "ReadMask"])

\* lines 146-155 (nBytes = 2) and 157-166 (nBytes = 8)
readExtendedLength(o, nBytes) ==
  IF Len(o.sockIn) < nBytes THEN Return(o)
  ELSE Loop([o EXCEPT !.sockIn = Drop(@, nBytes),
                      !.nextLength = FromBigEndian(Take(o.sockIn, nBytes), 0),
                      !.nextAction = "ReadMask"])

\* readMask without the check of line 169: a short read of the key
readMaskTorn(o) ==
  IF Len(o.sockIn) < 1 THEN Return(o)
  ELSE
    LET n == Min(4, Len(o.sockIn)) IN
    Loop([o EXCEPT !.sockIn = Drop(@, n),
                   !.mask = Take(o.sockIn, n) \o Drop(o.mask, n),
                   !.maskIndex = 0,
                   !.nextAction = "ReadPayload"])

\* lines 168-176
readMask(o) ==
  IF Len(o.sockIn) < 4 THEN Return(o)
  ELSE Loop([o EXCEPT !.sockIn = Drop(@, 4),
                      !.mask = Take(o.sockIn, 4),
                      !.maskIndex = 0,
                      !.nextAction = "ReadPayload"])

\* the payload of a Pong discarded as it becomes available
readPayloadPongIncremental(o) ==
  IF o.nextLength = 0 THEN
    Loop([o EXCEPT !.nextAction = "ReadOpcodeAnd1ByteLength"])
  ELSE IF Len(o.sockIn) = 0 THEN Return(o)
  ELSE
    LET read == Min(o.nextLength, Len(o.sockIn)) IN
    Loop([o EXCEPT !.sockIn = Drop(@, read), !.nextLength = @ - read])

\* lines 180-193
readPayloadPong(o) ==
  IF o.nextLength <= Len(o.sockIn) THEN
    Loop([o EXCEPT !.sockIn = Drop(@, o.nextLength),
                   !.nextAction = "ReadOpcodeAnd1ByteLength"])
  ELSE Return(o)

\* lines 194-209
readPayloadPing(o) ==
  IF o.nextLength <= Len(o.sockIn) THEN
    LET um == unmask(o, Take(o.sockIn, o.nextLength), o.nextLength)
        pingData == um.data
    IN Loop([o EXCEPT !.sockIn = Drop(@, o.nextLength),
                      !.maskIndex = um.maskIndex,
                      !.sockOut = @ \o <<pongHeader>>
                                    \o writeLength(Len(pingData))
                                    \o pingData,
                      !.nextAction = "ReadOpcodeAnd1ByteLength"])
  ELSE Return(o)

\* the payload of a data frame with a return to the caller after each chunk
readPayloadDataReturning(o) ==
  LET iAvailable == Len(o.sockIn) IN
  IF o.nextLength = 0 THEN
    Loop([o EXCEPT !.nextAction = "ReadOpcodeAnd1ByteLength"])
  ELSE IF iAvailable = 0 THEN Return(o)
  ELSE
    LET read == Min(o.nextLength, iAvailable)
        um == unmask(o, Take(o.sockIn, read), read)
    IN Return([o EXCEPT !.sockIn = Drop(@, read),
                        !.nextLength = @ - read,
                        !.maskIndex = um.maskIndex,
                        !.buffers = Append(@, um.data),
                        !.bytesInBuffers = @ + read])

\* the payload of a data frame with an empty chunk queued for a frame of
\* length 0
readPayloadDataQueueEmpty(o) ==
  LET iAvailable == Len(o.sockIn) IN
  IF o.nextLength = 0 THEN
    Loop([o EXCEPT !.nextAction = "ReadOpcodeAnd1ByteLength",
                   !.buffers = Append(@, << >>)])
  ELSE IF iAvailable = 0 THEN Return(o)
  ELSE
    LET read == Min(o.nextLength, iAvailable)
        um == unmask(o, Take(o.sockIn, read), read)
    IN Loop([o EXCEPT !.sockIn = Drop(@, read),
                      !.nextLength = @ - read,
                      !.maskIndex = um.maskIndex,
                      !.buffers = Append(@, um.data),
                      !.bytesInBuffers = @ + read])

\* lines 211-226
readPayloadData(o) ==
  LET iAvailable == Len(o.sockIn) IN
  IF o.nextLength = 0 THEN
    Loop([o EXCEPT !.nextAction = "ReadOpcodeAnd1ByteLength"])
  ELSE IF iAvailable = 0 THEN Return(o)
  ELSE
    LET read == Min(o.nextLength, iAvailable)
        um == unmask(o, Take(o.sockIn, read), read)
    IN Loop([o EXCEPT !.sockIn = Drop(@, read),
                      !.nextLength = @ - read,
                      !.maskIndex = um.maskIndex,
                      !.buffers = Append(@, um.data),
                      !.bytesInBuffers = @ + read])

\* one iteration of the while loop: the switch on nextAction and nextPayload
decodeStep(o) ==
  CASE o.nextAction = "ReadOpcodeAnd1ByteLength" -> readOpcodeAnd1ByteLength(o)
    [] o.nextAction = "Read2ByteLength" -> readExtendedLength(o, 2)
    [] o.nextAction = "Read8ByteLength" -> readExtendedLength(o, 8)
    [] o.nextAction = "ReadMask" -> readMask(o)
    [] o.nextAction = "ReadPayload" /\ o.nextPayload = "Pong" -> readPayloadPong(o)
    [] o.nextAction = "ReadPayload" /\ o.nextPayload = "Ping" -> readPayloadPing(o)
    [] o.nextAction = "ReadPayload" /\ o.nextPayload = "Data" -> readPayloadData(o)

RECURSIVE socketReadOpen(_)
socketReadOpen(o) ==
  LET r == decodeStep(o) IN IF r.loop THEN socketReadOpen(r.o) ELSE r.o

(***************************************************************************)
(* The entry point: WebSocket::socketRead.                                 *)
(***************************************************************************)
\* socketRead that decodes in every state but Handshake
socketReadUnguarded(o) ==
  LET o1 == IF o.wsState = "None" THEN [o EXCEPT !.wsState = "Handshake"] ELSE o
      o2 == IF o1.wsState = "Handshake" THEN socketReadHandshake(o1) ELSE o1
  IN IF o2.wsState # "Handshake" THEN socketReadOpen(o2) ELSE o2

socketRead(o) ==
  LET o1 == IF o.wsState = "None" THEN [o EXCEPT !.wsState = "Handshake"] ELSE o
      o2 == IF o1.wsState = "Handshake" THEN socketReadHandshake(o1) ELSE o1
  IN IF o2.wsState = "Open" THEN socketReadOpen(o2) ELSE o2

(***************************************************************************)
(* The output buffer: WebSocket::read (both overloads), bytesAvailable.    *)
(* The result is the object and the bytes handed to the caller.            *)
(***************************************************************************)
\* the loop of read leaving at maxLen = 0 before it looks at the head chunk
RECURSIVE readLoopBreakFirst(_, _, _)
readLoopBreakFirst(o, maxLen, buf) ==
  IF o.buffers = << >> \/ maxLen = 0 THEN [o |-> o, buf |-> buf]
  ELSE
    LET remainingInFirst == Len(o.buffers[1]) - o.buffersFirstConsumed IN
    IF remainingInFirst = 0 THEN
      readLoopBreakFirst([o EXCEPT !.buffers = Tail(@),
                                   !.buffersFirstConsumed = 0],
                         maxLen, buf)
    ELSE
      LET readStep == Min(remainingInFirst, maxLen) IN
      readLoopBreakFirst([o EXCEPT !.buffersFirstConsumed = @ + readStep,
                                   !.bytesInBuffers = @ - readStep],
                         maxLen - readStep,
                         buf \o SubSeq(o.buffers[1], o.buffersFirstConsumed + 1,
                                       o.buffersFirstConsumed + readStep))

\* the loop of read copying from the start of the head chunk, not from
\* its first unconsumed byte
RECURSIVE readLoopFromStart(_, _, _)
readLoopFromStart(o, maxLen, buf) ==
  IF o.buffers = << >> THEN [o |-> o, buf |-> buf]
  ELSE
    LET remainingInFirst == Len(o.buffers[1]) - o.buffersFirstConsumed IN
    IF remainingInFirst = 0 THEN
      readLoopFromStart([o EXCEPT !.buffers = Tail(@),
                                  !.buffersFirstConsumed = 0],
                        maxLen, buf)
    ELSE IF maxLen = 0 THEN [o |-> o, buf |-> buf]
    ELSE
      LET readStep == Min(remainingInFirst, maxLen) IN
      readLoopFromStart([o EXCEPT !.buffersFirstConsumed = @ + readStep,
                                  !.bytesInBuffers = @ - readStep],
                        maxLen - readStep,
                        buf \o SubSeq(o.buffers[1], 1, readStep))

\* qint64 read(char *buf, qint64 maxLen), one evaluation per loop iteration
RECURSIVE readLoop(_, _, _)
readLoop(o, maxLen, buf) ==
  IF o.buffers = << >> THEN [o |-> o, buf |-> buf]
  ELSE
    LET remainingInFirst == Len(o.buffers[1]) - o.buffersFirstConsumed IN
    IF remainingInFirst = 0 THEN
      readLoop([o EXCEPT !.buffers = Tail(@), !.buffersFirstConsumed = 0],
               maxLen, buf)
    ELSE IF maxLen = 0 THEN [o |-> o, buf |-> buf]
    ELSE
      LET readStep == Min(remainingInFirst, maxLen) IN
      readLoop([o EXCEPT !.buffersFirstConsumed = @ + readStep,
                         !.bytesInBuffers = @ - readStep],
               maxLen - readStep,
               buf \o SubSeq(o.buffers[1], o.buffersFirstConsumed + 1,
                             o.buffersFirstConsumed + readStep))

\* read(buf, maxLen) that hands out all that is buffered, whatever maxLen
readIntoWhole(o, maxLen) == readLoop(o, o.bytesInBuffers, << >>)

readInto(o, maxLen) == readLoop(o, maxLen, << >>)

\* read(maxLen) that hands out nothing unless the connection is open
readWhenOpen(o, maxLen) ==
  IF o.wsState # "Open" THEN [o |-> o, buf |-> << >>]
  ELSE
    LET target == Min(maxLen, o.bytesInBuffers)
        r == readInto(o, target)
    IN [o |-> r.o,
        buf |-> r.buf \o [i \in 1..(target - Len(r.buf)) |-> 0]]

\* QByteArray read(qint64 maxLen): a zero-filled array of the target size
\* that the first overload fills from its start
read(o, maxLen) ==
  LET target == Min(maxLen, o.bytesInBuffers)
      r == readInto(o, target)
  IN [o |-> r.o,
      buf |-> r.buf \o [i \in 1..(target - Len(r.buf)) |-> 0]]

bytesAvailable(o) == o.bytesInBuffers

(***************************************************************************)
(* The client: the header lines and the frames it may send, laid out as    *)
(* the decoder reads them (socketReadHandshake lines 40-58, socketReadOpen *)
(* lines 81-176).                                                          *)
(***************************************************************************)
\* "Sec-WebSocket-Key: dGhlIHNhbXBsZSBub25jZQ==\r\n"
KeyLineGood ==
  <<83, 101, 99, 45, 87, 101, 98, 83, 111, 99, 107, 101, 116, 45, 75, 101,
    121, 58, 32, 100, 71, 104, 108, 73, 72, 78, 104, 98, 88, 66, 115, 90,
    83, 66, 117, 98, 50, 53, 106, 90, 81, 61, 61, 13, 10>>

\* "sec-websocket-key:AAAAAAAAAAAAAAAAAAAAAA==\r\n"
KeyLineLower ==
  <<115, 101, 99, 45, 119, 101, 98, 115, 111, 99, 107, 101, 116, 45, 107,
    101, 121, 58, 65, 65, 65, 65, 65, 65, 65, 65, 65, 65, 65, 65, 65, 65,
    65, 65, 65, 65, 65, 65, 65, 65, 61, 61, 13, 10>>

\* "Sec-WebSocket-Key: abc\r\n"
KeyLineShort ==
  <<83, 101, 99, 45, 87, 101, 98, 83, 111, 99, 107, 101, 116, 45, 75, 101,
    121, 58, 32, 97, 98, 99, 13, 10>>

\* "Sec-WebSocket-Key:" then 20 blanks then "abcd\r\n"
KeyLinePadded ==
  <<83, 101, 99, 45, 87, 101, 98, 83, 111, 99, 107, 101, 116, 45, 75, 101,
    121, 58, 32, 32, 32, 32, 32, 32, 32, 32, 32, 32, 32, 32, 32, 32, 32,
    32, 32, 32, 32, 32, 97, 98, 99, 100, 13, 10>>

\* "Host: x\r\n"
HostLine == <<72, 111, 115, 116, 58, 32, 120, 13, 10>>

HeaderLines == {KeyLineGood, KeyLineLower, KeyLineShort, KeyLinePadded, HostLine}

\* mask key 37 FA 21 3D and the masked "Hello" 7F 9F 4D 51 58
KeyA == <<55, 250, 33, 61>>

KeyB == <<1, 2, 3, 4>>

MaskedHello == <<127, 159, 77, 81, 88>>

\* a frame as the client lays it out: byte 0, the mask bit, the number of
\* extended length bytes (0, 2 or 8), the mask key and the payload as sent
Frame(b0, maskBit, lenExt, key, payload) ==
  [b0 |-> b0, maskBit |-> maskBit, lenExt |-> lenExt, key |-> key,
   payload |-> payload]

EncodeFrame(f) ==
  LET n == Len(f.payload)
      code == IF f.lenExt = 0 THEN n ELSE IF f.lenExt = 2 THEN 126 ELSE 127
  IN <<f.b0, (IF f.maskBit THEN 128 ELSE 0) + code>>
       \o ToBigEndian(n, f.lenExt)
       \o (IF f.maskBit THEN f.key ELSE << >>)
       \o f.payload

Opcode(f) == f.b0 % 16

\* a payload of BigLen bytes is the least that writeLength encodes in 64 bits
BigLen == 65536

\* a ping whose payload unmasks to BigLen bytes 255
BigPing ==
  Frame(137, TRUE, 8, KeyA,
        [i \in 1..BigLen |-> Xor8(255, KeyA[((i - 1) % 4) + 1])])

AllFrames ==
  << Frame(129, TRUE, 0, KeyA, MaskedHello),     \* text "Hello"
     Frame(0, TRUE, 0, KeyB, << >>),             \* empty continuation
     Frame(130, TRUE, 2, KeyB, <<7, 8>>),        \* binary, 16 bit length
     Frame(137, TRUE, 8, KeyA, <<16, 32, 48>>),  \* ping, 64 bit length
     Frame(138, TRUE, 0, KeyB, <<9>>),           \* pong
     Frame(136, TRUE, 0, KeyA, << >>),           \* close
     Frame(136, FALSE, 0, << >>, <<3, 232>>),    \* close, not masked
     Frame(130, FALSE, 0, << >>, <<72>>),        \* binary, not masked
     Frame(131, TRUE, 0, KeyA, << >>),           \* opcode 3
     BigPing,
     Frame(138, TRUE, 0, KeyB, <<9, 8, 7>>) >>     \* pong of 3 bytes

FrameNo(f) == CHOOSE i \in 1..Len(AllFrames) : AllFrames[i] = f

Frames == {AllFrames[i] : i \in 1..9}

\* the frames the client has sent
clFrames == [i \in 1..Len(clSent) |-> AllFrames[clSent[i]]]

\* the frames sent while the application also reads and writes
AppFrames ==
  { Frame(129, TRUE, 0, KeyA, MaskedHello),
    Frame(137, TRUE, 8, KeyA, <<16, 32, 48>>),
    Frame(136, TRUE, 0, KeyA, << >>),
    Frame(130, FALSE, 0, << >>, <<72>>) }

Messages == { << >>, <<104, 105>> }

\* the request of a client that sends frames: the key line and the blank line
PlainRequest == <<KeyLineGood, CRLF>>

BlankSent == \E i \in 1..Len(clLines) : clLines[i] = CRLF

EncodeFrames(fs) == Flatten([i \in 1..Len(fs) |-> EncodeFrame(fs[i])])

\* every byte the client has sent, and those the transport has made available
Sent == Flatten(clLines) \o EncodeFrames(clFrames)

Fed == Take(Sent, nFed)

\* bytes the client has sent that the transport has not delivered yet
wire == Drop(Sent, nFed)

\* a frame that ends the connection: a close, an opcode that is none of
\* 0, 1, 2, 8, 9, 10, or a frame without the mask bit
Terminal(f) == Opcode(f) \notin {0, 1, 2, 9, 10} \/ ~f.maskBit

TerminalSent == \E i \in 1..Len(clFrames) : Terminal(clFrames[i])

(***************************************************************************)
(* Actions.                                                                *)
(***************************************************************************)
Init ==
  /\ wsState = "None" /\ webSocketAccept = << >>
  /\ mask = <<0, 0, 0, 0>> /\ maskIndex = 0
  /\ buffers = << >> /\ bytesInBuffers = 0 /\ buffersFirstConsumed = 0
  /\ nextAction = "ReadOpcodeAnd1ByteLength" /\ nextLength = 0
  /\ nextPayload = "Data"
  /\ sockIn = << >> /\ sockOut = << >>
  /\ nFed = 0 /\ clLines = << >> /\ clSent = << >>
  /\ readOut = << >> /\ nWrites = 0
  /\ wlLength = 0 /\ wlOut = << >>

\* the client sends one more header line, or the blank line that ends them
SendLine(l) ==
  /\ ~BlankSent
  /\ l = CRLF \/ Len(clLines) < MaxLines
  /\ clLines' = Append(clLines, l)
  /\ UNCHANGED <<objVars, nFed, clSent, readOut, nWrites, wlVars>>

\* the client sends a frame after its request: it composes its frames while
\* none of them is delivered, either with the request or once the request
\* is delivered, and sends no frame after one that ends the connection
\* (the bytes of that frame after its header are the bytes that follow it)
\* and no frame twice
SendFrame(f) ==
  /\ Len(clFrames) < MaxFrames
  /\ \A i \in 1..Len(clFrames) : clFrames[i] # f
  /\ clLines = PlainRequest
  /\ ~TerminalSent
  /\ Len(wire) = Len(Sent) \/ Len(wire) = Len(EncodeFrames(clFrames))
  /\ clSent' = Append(clSent, FrameNo(f))
  /\ UNCHANGED <<objVars, nFed, clLines, readOut, nWrites, wlVars>>

\* the transport makes the next n bytes readable and socketRead is invoked
SocketRead(n) ==
  /\ Becomes(socketRead([Obj EXCEPT !.sockIn = @ \o Take(wire, n)]))
  /\ nFed' = nFed + n
  /\ UNCHANGED <<clLines, clSent, readOut, nWrites, wlVars>>

\* the application calls write(qbaMsg)
Write(qbaMsg) ==
  /\ nWrites < MaxWrites
  /\ Becomes(write(Obj, qbaMsg))
  /\ nWrites' = IF wsState = "Open" THEN nWrites + 1 ELSE nWrites
  /\ UNCHANGED <<nFed, clLines, clSent, readOut, wlVars>>

\* the application calls read(buf, maxLen) or read(maxLen), r its result
ReadCall(r) ==
  /\ Becomes(r.o)
  /\ readOut' = readOut \o r.buf
  /\ UNCHANGED <<nFed, clLines, clSent, nWrites, wlVars>>

ReadInto(maxLen) == ReadCall(readInto(Obj, maxLen))

Read(maxLen) == ReadCall(read(Obj, maxLen))

\* the client, the transport and the decoder
Next ==
  \/ \E l \in HeaderLines \cup {CRLF} : SendLine(l)
  \/ \E f \in Frames : SendFrame(f)
  \/ \E n \in 0..Len(wire) : SocketRead(n)

Spec == Init /\ [][Next]_vars

\* the same with an application that writes and reads
NextApp ==
  \/ \E l \in {KeyLineGood, CRLF} : SendLine(l)
  \/ \E f \in AppFrames : SendFrame(f)
  \/ \E n \in 0..Len(wire) : SocketRead(n)
  \/ \E m \in Messages : Write(m)
  \/ \E maxLen \in 0..MaxReadLen : ReadInto(maxLen)
  \/ \E maxLen \in 0..MaxReadLen : Read(maxLen)

SpecApp == Init /\ [][NextApp]_vars

(***************************************************************************)
(* An application that drains what several data frames brought.            *)
(***************************************************************************)
ReadFrames ==
  { Frame(129, TRUE, 0, KeyA, MaskedHello),
    Frame(0, TRUE, 0, KeyB, << >>),
    Frame(130, TRUE, 2, KeyB, <<7, 8>>),
    Frame(136, TRUE, 0, KeyA, << >>) }

NextRead ==
  \/ \E l \in {KeyLineGood, CRLF} : SendLine(l)
  \/ \E f \in ReadFrames : SendFrame(f)
  \/ \E n \in 0..Len(wire) : SocketRead(n)
  \/ \E maxLen \in 0..MaxReadLen : ReadInto(maxLen)
  \/ \E maxLen \in 0..MaxReadLen : Read(maxLen)

SpecRead == Init /\ [][NextRead]_vars

(***************************************************************************)
(* Connections that fail: any request, frames that the decoder refuses     *)
(* after frames that it answers or decodes, and an application that        *)
(* writes.                                                                 *)
(***************************************************************************)
ErrFrames ==
  { Frame(129, TRUE, 0, KeyA, MaskedHello),
    Frame(137, TRUE, 8, KeyA, <<16, 32, 48>>),
    Frame(130, FALSE, 0, << >>, <<72>>),
    Frame(131, TRUE, 0, KeyA, << >>) }

NextErr ==
  \/ \E l \in HeaderLines \cup {CRLF} : SendLine(l)
  \/ \E f \in ErrFrames : SendFrame(f)
  \/ \E n \in 0..Len(wire) : SocketRead(n)
  \/ \E m \in Messages : Write(m)

SpecErr == Init /\ [][NextErr]_vars

(***************************************************************************)
(* Requests that carry up to MaxKeyLines header lines, key lines among     *)
(* them, before the blank line.                                            *)
(***************************************************************************)
\* the client sends one more header line of a longer request
SendHeaderLine(l) ==
  /\ ~BlankSent
  /\ l = CRLF \/ Len(clLines) < MaxKeyLines
  /\ clLines' = Append(clLines, l)
  /\ UNCHANGED <<objVars, nFed, clSent, readOut, nWrites, wlVars>>

NextHandshake ==
  \/ \E l \in {KeyLineGood, KeyLineLower, HostLine, CRLF} : SendHeaderLine(l)
  \/ \E n \in 0..Len(wire) : SocketRead(n)

SpecHandshake == Init /\ [][NextHandshake]_vars

(***************************************************************************)
(* Control frames whose payload arrives in pieces.                         *)
(***************************************************************************)
ControlFrames ==
  { Frame(137, TRUE, 8, KeyA, <<16, 32, 48>>),
    Frame(138, TRUE, 0, KeyB, <<9, 8, 7>>),
    Frame(129, TRUE, 0, KeyA, MaskedHello) }

NextControl ==
  \/ \E l \in {KeyLineGood, CRLF} : SendLine(l)
  \/ \E f \in ControlFrames : SendFrame(f)
  \/ \E n \in 0..Len(wire) : SocketRead(n)

SpecControl == Init /\ [][NextControl]_vars

(***************************************************************************)
(* writeLength alone, called with lengths on both sides of each encoding.  *)
(***************************************************************************)
Lengths == 0..130 \cup 65530..65540 \cup {70000}

CallWriteLength(length) ==
  /\ wlLength' = length
  /\ wlOut' = writeLength(length)
  /\ UNCHANGED <<objVars, envVars>>

NextWriteLength == \E length \in Lengths : CallWriteLength(length)

SpecWriteLength == Init /\ [][NextWriteLength]_vars

(***************************************************************************)
(* A connection that carries a payload of BigLen bytes in each direction:  *)
(* a Ping whose payload unmasks to BigLen bytes 255, and a message of      *)
(* BigLen bytes 255 given to write.                                        *)
(***************************************************************************)
BigMessage == [i \in 1..BigLen |-> 255]

\* the sizes of the next delivery: any while few bytes are undelivered,
\* else all but the last BigLen bytes, all but one, or all
Chunks ==
  IF Len(wire) <= MaxChunked THEN 0..Len(wire)
  ELSE {n \in {Len(wire) - BigLen, Len(wire) - 1, Len(wire)} : n >= 0}

NextBig ==
  \/ \E l \in {KeyLineGood, CRLF} : SendLine(l)
  \/ SendFrame(BigPing)
  \/ \E n \in Chunks : SocketRead(n)
  \/ Write(BigMessage)

SpecBig == Init /\ [][NextBig]_vars

(***************************************************************************)
(* What the caller and the client can observe.                             *)
(***************************************************************************)
\* the bytes of the output buffer that are still to be read
Buffered(o) == Drop(Flatten(o.buffers), o.buffersFirstConsumed)

\* every byte decoded so far: those read() returned and those still buffered
Decoded == readOut \o Buffered(Obj)

RequestLen == Len(Flatten(clLines))

\* the bytes of frames the transport has made available
FedFrames == Drop(Fed, RequestLen)

HandshakeResponse(token) == serverHeader \o token \o CRLF \o CRLF

\* what the server wrote after its handshake response
ServerOutput == Drop(sockOut, Len(HandshakeResponse(webSocketAccept)))

\* a receiver of server frames: byte 0, byte 1 without mask bit, the length
\* it encodes (0..125, 126 and 16 bits, 127 and 64 bits), then the payload
ParseServerFrame(bytes) ==
  IF Len(bytes) < 2 \/ bytes[2] >= 128 THEN [ok |-> FALSE]
  ELSE
    LET ext == IF bytes[2] <= 125 THEN 0 ELSE IF bytes[2] = 126 THEN 2 ELSE 8 IN
    IF Len(bytes) < 2 + ext THEN [ok |-> FALSE]
    ELSE
      LET n == IF ext = 0 THEN bytes[2]
               ELSE FromBigEndian(SubSeq(bytes, 3, 2 + ext), 0)
      IN IF Len(bytes) < 2 + ext + n THEN [ok |-> FALSE]
         ELSE [ok |-> TRUE, b0 |-> bytes[1], length |-> n,
               payload |-> SubSeq(bytes, 3 + ext, 2 + ext + n),
               rest |-> Drop(bytes, 2 + ext + n)]

\* the frames a receiver finds in bytes; ok is FALSE when bytes is not a
\* sequence of whole frames
RECURSIVE ParseServerFrames(_)
ParseServerFrames(bytes) ==
  IF bytes = << >> THEN [ok |-> TRUE, frames |-> << >>]
  ELSE
    LET f == ParseServerFrame(bytes) IN
    IF ~f.ok THEN [ok |-> FALSE, frames |-> << >>]
    ELSE
      LET more == ParseServerFrames(f.rest) IN
      [ok |-> more.ok,
       frames |-> <<[b0 |-> f.b0, payload |-> f.payload]>> \o more.frames]

(***************************************************************************)
(* C1  Resumability.  Once the request is delivered, whatever the chunks   *)
(* in which the frame bytes were delivered to successive socketRead        *)
(* invocations, the bytes readable from the output buffer, the bytes       *)
(* written to the transport and the connection state are those of an       *)
(* object that completed the handshake and was then given the same frame   *)
(* bytes in one socketRead invocation.                                     *)
(***************************************************************************)
Observable(o, alreadyRead) ==
  [output |-> alreadyRead \o Buffered(o), written |-> o.sockOut,
   state |-> o.wsState]

\* the handshake alone, then every frame byte in a single invocation
SingleInvocation ==
  LET opened == socketRead(NewObj(Flatten(clLines)))
  IN socketRead([opened EXCEPT !.sockIn = @ \o FedFrames])

C1_Resumability ==
  (BlankSent /\ Len(Fed) >= RequestLen)
    => Observable(Obj, readOut) = Observable(SingleInvocation, << >>)

\* "Hello" arrived one payload byte per invocation, and a ping was answered
C1_Witness ==
  /\ wire = << >> /\ Len(clFrames) = 2
  /\ Len(buffers) = 5
  /\ Len(sockOut) > Len(HandshakeResponse(webSocketAccept))

(***************************************************************************)
(* C2  Unmasking.  For a masked data frame with key K, the byte the        *)
(* decoder appends to the output buffer for payload offset i is            *)
(* masked[i] XOR K[i mod 4], whatever the split of the payload over        *)
(* socketRead invocations: the decoded bytes are at all times a prefix of  *)
(* the unmasked payloads of the data frames sent, and all of them once     *)
(* every byte is delivered.                                                *)
(***************************************************************************)
\* payload offset i (from 0) of frame f, unmasked with its key
UnmaskedByte(f, i) == Xor8(f.payload[i + 1], f.key[(i % 4) + 1])

UnmaskedPayload(f) == [j \in 1..Len(f.payload) |-> UnmaskedByte(f, j - 1)]

\* the payloads of the data frames among fs, up to a frame that ends the
\* connection
RECURSIVE DataOf(_)
DataOf(fs) ==
  IF fs = << >> \/ Terminal(Head(fs)) THEN << >>
  ELSE (IF Opcode(Head(fs)) <= 2 THEN UnmaskedPayload(Head(fs)) ELSE << >>)
         \o DataOf(Tail(fs))

C2_Unmask ==
  /\ IsPrefix(Decoded, DataOf(clFrames))
  /\ wire = << >> => Decoded = DataOf(clFrames)

\* "Hello" split after its third byte, then a frame with another key
C2_Witness ==
  /\ wire = << >>
  /\ buffers = << <<72, 101, 108>>, <<108, 111>>, <<6, 10>> >>

(***************************************************************************)
(* C4  A frame without the mask bit.  As claimed: once the header of a     *)
(* frame whose mask bit is clear is received, the state is Error and the   *)
(* output buffer holds what it held before that frame, whatever the opcode *)
(* of the frame.                                                           *)
(***************************************************************************)
\* offset in the byte stream of the k-th frame the client sent
FrameStart(k) == RequestLen + Len(EncodeFrames(Take(clFrames, k - 1)))

\* the two header bytes of frame k were made available (and so were decoded)
HeaderFed(k) == Len(Fed) >= FrameStart(k) + 2

\* frame k is reached by the decoder: no frame before it ends the connection
Reached(k) == \A j \in 1..(k - 1) : ~Terminal(clFrames[j])

C4_Original ==
  \A k \in 1..Len(clFrames) :
    (~clFrames[k].maskBit /\ Reached(k) /\ HeaderFed(k))
      => /\ wsState = "Error"
         /\ Decoded = DataOf(Take(clFrames, k - 1))

(***************************************************************************)
(* C4 as amended: once the header of a frame whose mask bit is clear is    *)
(* received, the output buffer holds what it held before that frame; the   *)
(* state is Error for every opcode but Close (8), and Closed for a Close   *)
(* frame, which is answered whether masked or not.                         *)
(***************************************************************************)
C4_Amended ==
  \A k \in 1..Len(clFrames) :
    (~clFrames[k].maskBit /\ Reached(k) /\ HeaderFed(k))
      => /\ wsState = IF Opcode(clFrames[k]) = 8 THEN "Closed" ELSE "Error"
         /\ Decoded = DataOf(Take(clFrames, k - 1))

\* "Hello", then a binary frame without mask bit whose payload stays unread
C4_Witness ==
  /\ wire = << >> /\ Len(clFrames) = 2
  /\ ~clFrames[2].maskBit /\ Opcode(clFrames[2]) = 2
  /\ wsState = "Error"
  /\ Decoded = <<72, 101, 108, 108, 111>>
  /\ sockIn = clFrames[2].payload

(***************************************************************************)
(* C3  Close.  Once the header of a Close frame is received while Open,    *)
(* the state is Closed and the server has written exactly one Close frame, *)
(* the two bytes 0x88 0x00, as its last frame; from then on no operation   *)
(* changes the state, writes to the transport or reads from it, and only   *)
(* read() changes the output buffer.                                       *)
(***************************************************************************)
CloseFramesWritten ==
  LET p == ParseServerFrames(ServerOutput) IN
  IF ~p.ok THEN -1
  ELSE Cardinality({i \in 1..Len(p.frames) : p.frames[i].b0 % 16 = 8})

C3_Closed ==
  /\ \A k \in 1..Len(clFrames) :
       (Opcode(clFrames[k]) = 8 /\ Reached(k) /\ HeaderFed(k))
         => wsState = "Closed"
  /\ wsState = "Closed"
       => /\ CloseFramesWritten = 1
          /\ SubSeq(sockOut, Len(sockOut) - 1, Len(sockOut)) = <<136, 0>>
  /\ wsState = "Open" => CloseFramesWritten = 0

C3_AfterClose ==
  wsState = "Closed"
    => /\ wsState' = "Closed"
       /\ sockOut' = sockOut
       /\ sockIn' = sockIn \o Take(wire, Len(wire) - Len(wire'))
       /\ Decoded' = Decoded
       /\ readOut' = readOut
            => <<buffers, bytesInBuffers, buffersFirstConsumed>>'
                 = <<buffers, bytesInBuffers, buffersFirstConsumed>>

C3_Close == [] C3_Closed /\ [][C3_AfterClose]_vars

\* closed after "Hello"; the key of the Close frame arrived and stays unread
C3_Witness ==
  /\ wsState = "Closed" /\ wire = << >>
  /\ Len(clFrames) = 2 /\ sockIn = clFrames[2].key
  /\ Decoded = <<72, 101, 108, 108, 111>>
  /\ nWrites = 0

(***************************************************************************)
(* C8  The connection state is monotonic.  Every socketRead, write and     *)
(* read leaves the state where it is or moves it forward in the order      *)
(* None, Handshake, Open, {Closed, Error}; Closed and Error never change.  *)
(***************************************************************************)
StateRank(st) ==
  CASE st = "None" -> 0
    [] st = "Handshake" -> 1
    [] st = "Open" -> 2
    [] st \in {"Closed", "Error"} -> 3

C8_Step ==
  /\ StateRank(wsState) <= StateRank(wsState')
  /\ StateRank(wsState) = StateRank(wsState') => wsState' = wsState

C8_Monotonic == [][C8_Step]_vars

\* closed after the application wrote a frame and read decoded bytes
C8_Witness ==
  /\ wsState = "Closed" /\ nWrites = 1 /\ readOut # << >>
  /\ wire = << >> /\ sockIn # << >>

(***************************************************************************)
(* The request as the client sent it, line by line.                        *)
(***************************************************************************)
IsKeyLine(l) == startsWithCI(l, keyPrefixLower)

\* the value of a key line: what follows "Sec-WebSocket-Key:", trimmed
KeyValue(l) == trimmed(Drop(l, KeyPrefixLen))

\* line i was made available completely
LineFed(i) == Len(Fed) >= Len(Flatten(Take(clLines, i)))

\* line i is scanned: no line before it is a key line or the blank line
PlainBefore(i) ==
  \A j \in 1..(i - 1) : ~IsKeyLine(clLines[j]) /\ clLines[j] # CRLF

\* number of places at which pattern occurs in s
Occurrences(pattern, s) ==
  Cardinality({i \in 1..(Len(s) - Len(pattern) + 1) :
                 SubSeq(s, i, i + Len(pattern) - 1) = pattern})

(***************************************************************************)
(* C9  A malformed key.  As claimed: once a Sec-WebSocket-Key line whose   *)
(* trimmed value is not exactly 24 characters long is received, the state  *)
(* is Error and no handshake response is ever written.                     *)
(***************************************************************************)
C9_MalformedKey ==
  \A i \in 1..Len(clLines) :
    (/\ IsKeyLine(clLines[i]) /\ Len(KeyValue(clLines[i])) # KeyLen
     /\ PlainBefore(i) /\ LineFed(i))
      => wsState = "Error" /\ sockOut = << >>

(***************************************************************************)
(* C10  Opening.  Nothing is written before the state is Open.  The state  *)
(* is Open (or past it) only if the blank line was received after a key    *)
(* line; the response with the token of the last key line was then written *)
(* exactly once, at the start of the output, in the step that left the     *)
(* handshake.  A blank line received with no key line before it gives      *)
(* Error with nothing written.                                             *)
(***************************************************************************)
\* the token of the last key line before line i
RECURSIVE TokenBefore(_)
TokenBefore(i) ==
  IF i <= 1 THEN << >>
  ELSE IF IsKeyLine(clLines[i - 1])
       THEN sha1Base64(KeyValue(clLines[i - 1]) \o magicSequence)
       ELSE TokenBefore(i - 1)

Opened == wsState \in {"Open", "Closed"} \/ sockOut # << >>

C10_State ==
  /\ wsState \in {"None", "Handshake"} => sockOut = << >>
  /\ Opened =>
       \E i \in 1..Len(clLines) :
         /\ clLines[i] = CRLF /\ LineFed(i)
         /\ TokenBefore(i) # << >>
         /\ webSocketAccept = TokenBefore(i)
         /\ IsPrefix(HandshakeResponse(TokenBefore(i)), sockOut)
         /\ Occurrences(serverHeader, sockOut) = 1
  /\ \A i \in 1..Len(clLines) :
       (clLines[i] = CRLF /\ LineFed(i) /\ TokenBefore(i) = << >>)
         => wsState = "Error" /\ sockOut = << >>

C10_Step ==
  (wsState \in {"None", "Handshake"} /\ wsState' \notin {"None", "Handshake", "Error"})
    => IsPrefix(HandshakeResponse(webSocketAccept'), sockOut')

C10_Open == [] C10_State /\ [][C10_Step]_vars

\* opened by a request whose key line is written in lower case
C10_Witness ==
  /\ wsState = "Open" /\ Len(clLines) = 2 /\ clLines[1] = KeyLineLower
  /\ sockOut = HandshakeResponse(sha1Base64(KeyValue(KeyLineLower) \o magicSequence))

(***************************************************************************)
(* C6  The length header.  As claimed: writeLength(L) is the byte L for    *)
(* L <= 125, the byte 126 and L in 16 bits big-endian for 125 < L <= 65535,*)
(* the byte 127 and L in 64 bits big-endian for larger L; a receiver that  *)
(* decodes the header recovers L.                                          *)
(***************************************************************************)
\* the length a receiver reads from a length header
DecodeLength(header) ==
  IF header[1] <= 125 THEN header[1]
  ELSE FromBigEndian(Tail(header), 0)

C6_LengthHeader ==
  wlOut # << >> =>
    /\ wlOut = IF wlLength <= 125 THEN <<wlLength>>
               ELSE IF wlLength <= 65535
                    THEN <<126>> \o ToBigEndian(wlLength, 2)
                    ELSE <<127>> \o ToBigEndian(wlLength, 8)
    /\ DecodeLength(wlOut) = wlLength

(***************************************************************************)
(* C5  Ping.  As claimed: while the application has written nothing, the   *)
(* server's output is a sequence of whole frames whose Pong frames have    *)
(* header byte 138 and carry, in order, the unmasked payloads of exactly   *)
(* the masked Ping frames delivered completely; no Ping payload reaches    *)
(* the output buffer; after the last byte of a Ping the decoder is back    *)
(* at ReadOpcodeAnd1ByteLength.                                            *)
(***************************************************************************)
\* frame k is a masked Ping that the decoder gets to
IsPing(k) == Opcode(clFrames[k]) = 9 /\ clFrames[k].maskBit /\ Reached(k)

\* the unmasked payloads of the Pings among the first k frames that were
\* delivered completely
RECURSIVE PingsFed(_)
PingsFed(k) ==
  IF k = 0 THEN << >>
  ELSE PingsFed(k - 1)
         \o (IF IsPing(k) /\ Len(Fed) >= FrameStart(k + 1)
             THEN <<UnmaskedPayload(clFrames[k])>> ELSE << >>)

C5_Pong ==
  nWrites = 0 =>
    LET p == ParseServerFrames(ServerOutput)
        pongs == SelectSeq(p.frames, LAMBDA f : f.b0 % 16 = 10)
    IN /\ p.ok
       /\ \A i \in 1..Len(pongs) : pongs[i].b0 = pongHeader
       /\ [i \in 1..Len(pongs) |-> pongs[i].payload] = PingsFed(Len(clFrames))
       /\ IsPrefix(Decoded, DataOf(clFrames))
       /\ \A k \in 1..Len(clFrames) :
            (IsPing(k) /\ Len(Fed) = FrameStart(k + 1))
              => nextAction = "ReadOpcodeAnd1ByteLength"

(***************************************************************************)
(* C7  write.  As claimed: a call of write changes the transport only in   *)
(* state Open, and then appends exactly one frame: byte 130, a length      *)
(* header without mask bit, and the message unmodified, which is what a    *)
(* receiver of the appended bytes finds.                                   *)
(***************************************************************************)
C7_Step ==
  \A qbaMsg \in Messages \cup {BigMessage} :
    Write(qbaMsg) =>
      IF wsState = "Open"
      THEN /\ IsPrefix(sockOut, sockOut')
           /\ LET f == ParseServerFrame(Drop(sockOut', Len(sockOut)))
              IN f.ok /\ f.b0 = msgHeader /\ f.payload = qbaMsg
                      /\ f.rest = << >>
      ELSE sockOut' = sockOut

C7_Write == [][C7_Step]_vars

(***************************************************************************)
(* C11  Draining.  Whatever the chunks delivered to socketRead and the     *)
(* maxLen of the read calls between them, the bytes read() has returned    *)
(* are a prefix of the unmasked payload bytes of the data frames received  *)
(* so far, in arrival order, and equal them once the buffer is empty; a    *)
(* read call moves bytes from the buffer to the caller without changing    *)
(* their sequence.                                                         *)
(***************************************************************************)
\* how many payload bytes of frame k the transport has delivered
PayloadFed(k) ==
  LET n == Len(clFrames[k].payload)
      got == Len(Fed) - (FrameStart(k + 1) - n)
  IN IF got < 0 THEN 0 ELSE Min(got, n)

\* the unmasked payload bytes delivered of the data frames among the first k
RECURSIVE DataFed(_)
DataFed(k) ==
  IF k = 0 THEN << >>
  ELSE DataFed(k - 1)
         \o (IF Reached(k) /\ ~Terminal(clFrames[k]) /\ Opcode(clFrames[k]) <= 2
             THEN Take(UnmaskedPayload(clFrames[k]), PayloadFed(k))
             ELSE << >>)

C11_State ==
  /\ IsPrefix(readOut, DataFed(Len(clFrames)))
  /\ bytesAvailable(Obj) = 0 => readOut = DataFed(Len(clFrames))

C11_Step ==
  /\ IsPrefix(readOut, readOut')
  /\ nFed' = nFed => Decoded' = Decoded

C11_Drain == [] C11_State /\ [][C11_Step]_vars

\* "Hello" and a second frame drained to the last byte, at most
\* MaxReadLen bytes a call
C11_Witness ==
  /\ readOut = <<72, 101, 108, 108, 111, 6, 10>>
  /\ bytesInBuffers = 0 /\ buffers = << >>
(***************************************************************************)
(* C12  What read returns.  In every reachable state and for every         *)
(* maxLen >= 0, read(buf, maxLen) and read(maxLen) hand out exactly        *)
(* min(maxLen, bytesAvailable()) bytes and lower bytesAvailable() by that  *)
(* number; with nothing buffered they hand out nothing and leave the       *)
(* object as it is.                                                        *)
(***************************************************************************)
ReturnsMin(r, maxLen) ==
  /\ Len(r.buf) = Min(maxLen, bytesAvailable(Obj))
  /\ Len(r.buf) <= maxLen
  /\ bytesAvailable(r.o) = bytesAvailable(Obj) - Len(r.buf)
  /\ bytesAvailable(Obj) = 0 => r.o = Obj /\ r.buf = << >>

C12_Read ==
  \A maxLen \in 0..(MaxReadLen + 1) :
    /\ ReturnsMin(readInto(Obj, maxLen), maxLen)
    /\ ReturnsMin(read(Obj, maxLen), maxLen)

\* one byte is left after reads that crossed into the last chunk: a read
\* of two bytes now gets one
C12_Witness ==
  /\ Len(readOut) = 4 /\ bytesInBuffers = 1
  /\ Len(buffers) = 1 /\ buffersFirstConsumed > 0
  /\ Len(read(Obj, MaxReadLen).buf) = 1
(***************************************************************************)
(* C13  Accounting of the output buffer.  In every state reached by        *)
(* decoding and reading, bytesInBuffers is the total length of the queued  *)
(* chunks less buffersFirstConsumed; buffersFirstConsumed is 0 when the    *)
(* queue is empty and otherwise less than the length of the head chunk,    *)
(* so that no fully consumed chunk is left at the head; the same holds of  *)
(* what every read call would leave.                                       *)
(***************************************************************************)
Accounted(o) ==
  /\ o.bytesInBuffers = Len(Flatten(o.buffers)) - o.buffersFirstConsumed
  /\ o.buffers = << >> => o.buffersFirstConsumed = 0
  /\ o.buffers # << >> => o.buffersFirstConsumed < Len(o.buffers[1])

C13_Accounting ==
  /\ Accounted(Obj)
  /\ \A maxLen \in 0..(MaxReadLen + 1) :
       Accounted(readInto(Obj, maxLen).o) /\ Accounted(read(Obj, maxLen).o)

\* "Hello" came as two chunks and a read took exactly the first
C13_Witness ==
  /\ readOut = <<72, 101>>
  /\ buffers = << <<108, 108, 111>> >>
  /\ buffersFirstConsumed = 0 /\ bytesInBuffers = 3
(***************************************************************************)
(* C14  Error is terminal.  From state Error every step keeps the state,   *)
(* writes nothing, takes no byte from the transport (what is delivered     *)
(* stays unread) and keeps every decoder field.  In state Error all that   *)
(* was ever written is accounted for by what came before the fault: after  *)
(* a fault of the handshake nothing, otherwise the handshake response, one *)
(* Pong for each Ping received and the frames the application wrote.       *)
(***************************************************************************)
C14_Entered ==
  wsState = "Error" =>
    /\ clLines # PlainRequest => sockOut = << >>
    /\ clLines = PlainRequest =>
         LET p == ParseServerFrames(ServerOutput)
             pongs == SelectSeq(p.frames, LAMBDA f : f.b0 = pongHeader)
             msgs == SelectSeq(p.frames, LAMBDA f : f.b0 = msgHeader)
         IN /\ IsPrefix(HandshakeResponse(webSocketAccept), sockOut)
            /\ p.ok
            /\ Len(pongs) + Len(msgs) = Len(p.frames)
            /\ [i \in 1..Len(pongs) |-> pongs[i].payload]
                 = PingsFed(Len(clFrames))
            /\ Len(msgs) = nWrites

C14_Step ==
  wsState = "Error" =>
    /\ wsState' = "Error"
    /\ sockOut' = sockOut
    /\ sockIn' = sockIn \o Take(wire, nFed' - nFed)
    /\ UNCHANGED <<webSocketAccept, mask, maskIndex, nextAction, nextLength,
                   nextPayload, buffers, bytesInBuffers, buffersFirstConsumed>>

C14_Terminal == [] C14_Entered /\ [][C14_Step]_vars

\* a Ping was answered, the application wrote, then a frame of opcode 3
\* came; bytes delivered since are unread
C14_Witness ==
  /\ wsState = "Error" /\ nWrites = 1 /\ sockIn # << >>
  /\ Len(clFrames) = 2 /\ Opcode(clFrames[1]) = 9 /\ Opcode(clFrames[2]) = 3
  /\ PingsFed(2) # << >>
(***************************************************************************)
(* C15  The accept token.  As claimed: over every sequence of header       *)
(* lines, requests with more than one key line included, the stored token  *)
(* once set is never given another value.                                  *)
(***************************************************************************)
C15_Step == webSocketAccept # << >> => webSocketAccept' = webSocketAccept

C15_WriteOnce == [][C15_Step]_vars
(***************************************************************************)
(* C16  No torn reads.  Between invocations an open decoder at one of the  *)
(* steps ReadOpcodeAnd1ByteLength, Read2ByteLength, Read8ByteLength and    *)
(* ReadMask has fewer unread bytes than the step needs (2, 2, 8, 4), and   *)
(* one iteration of the loop returns with the object as it is.  An         *)
(* invocation whose delivery still leaves fewer bytes than needed leaves   *)
(* every delivered byte in the transport and keeps the step, the           *)
(* remaining length, the payload kind, the key and its index.              *)
(***************************************************************************)
FixedSteps ==
  {"ReadOpcodeAnd1ByteLength", "Read2ByteLength", "Read8ByteLength", "ReadMask"}

Needed(step) ==
  CASE step = "ReadOpcodeAnd1ByteLength" -> 2
    [] step = "Read2ByteLength" -> 2
    [] step = "Read8ByteLength" -> 8
    [] step = "ReadMask" -> 4

C16_Suspended ==
  (wsState = "Open" /\ nextAction \in FixedSteps)
    => /\ Len(sockIn) < Needed(nextAction)
       /\ decodeStep(Obj) = Return(Obj)

C16_Step ==
  (/\ wsState = "Open" /\ nextAction \in FixedSteps
   /\ Len(sockIn) + (nFed' - nFed) < Needed(nextAction))
    => /\ sockIn' = sockIn \o Take(wire, nFed' - nFed)
       /\ UNCHANGED <<wsState, nextAction, nextLength, nextPayload, mask,
                      maskIndex, sockOut>>

C16_NoTornRead == [] C16_Suspended /\ [][C16_Step]_vars

\* seven of the eight bytes of the 64 bit length of a Ping wait in the
\* transport
C16_Witness ==
  /\ wsState = "Open" /\ nextAction = "Read8ByteLength" /\ Len(sockIn) = 7
  /\ nextPayload = "Ping"
(***************************************************************************)
(* C17  Payloads of control frames.  As claimed: when the decoder is at    *)
(* ReadPayload of a Pong or a Ping and an invocation finds more than 0 and *)
(* fewer than the remaining number of bytes available, it takes them all   *)
(* from the transport and lowers the remaining length by their number.     *)
(***************************************************************************)
AtControlPayload ==
  wsState = "Open" /\ nextAction = "ReadPayload"
    /\ nextPayload \in {"Ping", "Pong"}

\* the bytes an invocation finds available in the step from this state
Available == Len(sockIn) + (nFed' - nFed)

C17_OriginalStep ==
  (AtControlPayload /\ 0 < Available /\ Available < nextLength)
    => sockIn' = << >> /\ nextLength' = nextLength - Available

C17_Original == [][C17_OriginalStep]_vars

(***************************************************************************)
(* C17 as amended: the payload of a Pong or a Ping is consumed whole.      *)
(* While fewer bytes than the remaining length are available, an           *)
(* invocation takes none of them from the transport and keeps the step,    *)
(* the remaining length (the length of the whole payload), the key index   *)
(* and the output; the invocation that finds the whole payload available   *)
(* takes all of it and leaves the step.                                    *)
(***************************************************************************)
\* the bytes the object has taken from the transport
Consumed == Len(Fed) - Len(sockIn)

C17_Waiting ==
  AtControlPayload =>
    /\ Len(sockIn) < nextLength
    /\ \E k \in 1..Len(clFrames) :
         /\ Opcode(clFrames[k]) \in {9, 10} /\ Reached(k)
         /\ nextLength = Len(clFrames[k].payload)
         /\ Consumed = FrameStart(k + 1) - nextLength
         /\ IsPrefix(sockIn, clFrames[k].payload)

C17_AmendedStep ==
  AtControlPayload =>
    IF Available < nextLength
    THEN /\ sockIn' = sockIn \o Take(wire, nFed' - nFed)
         /\ UNCHANGED <<wsState, nextAction, nextLength, nextPayload, mask,
                        maskIndex, sockOut, buffers>>
    ELSE Consumed' >= Consumed + nextLength

C17_Amended == [] C17_Waiting /\ [][C17_AmendedStep]_vars

\* two of the three payload bytes of a Pong wait in the transport
C17_Witness ==
  /\ wsState = "Open" /\ nextAction = "ReadPayload" /\ nextPayload = "Pong"
  /\ nextLength = 3 /\ sockIn = <<9, 8>>
(***************************************************************************)
(* C18  Termination.  Of an open decoder given any further bytes, every    *)
(* iteration of the loop that does not return either takes at least one    *)
(* byte from the transport or finds ReadPayload with remaining length 0    *)
(* and goes to ReadOpcodeAnd1ByteLength taking none; for a data frame      *)
(* that iteration changes nothing else, the output buffer included.  The   *)
(* invocation therefore ends within 2 * (bytes available) + 2 iterations.  *)
(***************************************************************************)
\* what one iteration that goes on did, from o to o1
Advances(o, o1) ==
  \/ Len(o1.sockIn) < Len(o.sockIn)
  \/ /\ o.nextAction = "ReadPayload" /\ o.nextLength = 0
     /\ o1.nextAction = "ReadOpcodeAnd1ByteLength"
     /\ o1.sockIn = o.sockIn
     /\ o1.buffers = o.buffers /\ o1.bytesInBuffers = o.bytesInBuffers
     /\ o.nextPayload = "Data"
          => o1 = [o EXCEPT !.nextAction = "ReadOpcodeAnd1ByteLength"]

\* every iteration of the invocation that starts from o advances
RECURSIVE AllAdvance(_)
AllAdvance(o) ==
  LET r == decodeStep(o) IN
  r.loop => Advances(o, r.o) /\ AllAdvance(r.o)

\* the number of iterations of the invocation that starts from o
RECURSIVE Iterations(_)
Iterations(o) ==
  LET r == decodeStep(o) IN IF r.loop THEN 1 + Iterations(r.o) ELSE 1

C18_Terminates ==
  wsState = "Open" =>
    \A n \in 0..Len(wire) :
      LET o == [Obj EXCEPT !.sockIn = @ \o Take(wire, n)] IN
      /\ AllAdvance(o)
      /\ Iterations(o) <= 2 * Len(o.sockIn) + 2

\* a continuation frame of length 0 was passed and the frame after it
\* decoded
C18_Witness ==
  /\ Len(clFrames) = 2 /\ Opcode(clFrames[1]) = 0
  /\ clFrames[1].payload = << >>
  /\ wire = << >> /\ buffers = << <<6, 10>> >>
  /\ nextAction = "ReadOpcodeAnd1ByteLength"
(***************************************************************************)
(* C19  Suspension.  Between invocations an open decoder at ReadPayload    *)
(* has a remaining length greater than 0.  When the last byte received is  *)
(* the last byte of a frame, that frame is completed: nothing is left      *)
(* unread, the decoder is at ReadOpcodeAnd1ByteLength, and a Pong was      *)
(* written for every Ping received.                                        *)
(***************************************************************************)
\* frame k and the frames before it do not end the connection
Passed(k) == \A j \in 1..k : ~Terminal(clFrames[j])

C19_Suspended ==
  /\ (wsState = "Open" /\ nextAction = "ReadPayload") => nextLength > 0
  /\ \A k \in 1..Len(clFrames) :
       (Passed(k) /\ Len(Fed) = FrameStart(k + 1))
         => /\ wsState = "Open"
            /\ nextAction = "ReadOpcodeAnd1ByteLength"
            /\ sockIn = << >>
            /\ LET p == ParseServerFrames(ServerOutput) IN
               /\ p.ok
               /\ [i \in 1..Len(p.frames) |-> p.frames[i].payload]
                    = PingsFed(k)
               /\ \A i \in 1..Len(p.frames) : p.frames[i].b0 = pongHeader

\* three bytes of "Hello" are decoded, two remain
C19_Witness ==
  /\ wsState = "Open" /\ nextAction = "ReadPayload" /\ nextPayload = "Data"
  /\ nextLength = 2 /\ buffers = << <<72, 101, 108>> >>
(***************************************************************************)
(* C20  Frame conditions.  In every reachable state, write leaves the      *)
(* connection state, the decoder fields, the output buffer and the unread  *)
(* transport bytes as they are; both read overloads leave the connection   *)
(* state, the decoder fields and the transport (read and written side) as  *)
(* they are and hand out the first bytes still buffered, in states Closed  *)
(* and Error as in state Open; bytesAvailable is the buffered count.  In   *)
(* states Closed and Error all data decoded before is returned or still    *)
(* buffered.                                                               *)
(***************************************************************************)
DecoderFields(o) ==
  <<o.wsState, o.nextAction, o.nextLength, o.nextPayload, o.mask,
    o.maskIndex, o.webSocketAccept>>

OutputBufferOf(o) == <<o.buffers, o.bytesInBuffers, o.buffersFirstConsumed>>

ReadKeeps(r, maxLen) ==
  /\ DecoderFields(r.o) = DecoderFields(Obj)
  /\ r.o.sockIn = sockIn /\ r.o.sockOut = sockOut
  /\ r.buf = Take(Buffered(Obj), Min(maxLen, Len(Buffered(Obj))))

C20_Frame ==
  /\ \A qbaMsg \in Messages :
       LET w == write(Obj, qbaMsg) IN
       /\ DecoderFields(w) = DecoderFields(Obj)
       /\ OutputBufferOf(w) = OutputBufferOf(Obj)
       /\ w.sockIn = sockIn
  /\ \A maxLen \in 0..(MaxReadLen + 1) :
       /\ ReadKeeps(readInto(Obj, maxLen), maxLen)
       /\ ReadKeeps(read(Obj, maxLen), maxLen)
  /\ bytesAvailable(Obj) = Len(Buffered(Obj))
  /\ wsState \in {"Closed", "Error"} => Decoded = DataOf(clFrames)

\* the connection failed with two bytes of "Hello" still buffered after
\* three were read, and the application had written
C20_Witness ==
  /\ wsState = "Error" /\ nWrites = 1
  /\ Len(readOut) = 3 /\ bytesInBuffers = 2
=============================================================================
